---- MODULE Spec2Model ----
(***************************************************************************)
(* A model of the AI writing assistant backend: the completion fallback    *)
(* chain of app/llm_client.py and the license ledger and payment gate of   *)
(* app/main.py.                                                            *)
(*                                                                         *)
(* Strings are sequences of one-character strings, so that strip(),        *)
(* lower(), split(","), strptime() and strftime() are computed character   *)
(* by character.  Python values (what json.load can return) are tagged     *)
(* records.  Dates are proleptic Gregorian ordinals, as in datetime.date.  *)
(***************************************************************************)
EXTENDS Integers, Sequences, FiniteSets, TLC

(***************************************************************************)
(* Bounds of the model.                                                    *)
(***************************************************************************)
\* number of entries of the Backend List
MaxModels == 3
\* longest request text and longest backend reply, in characters
MaxTextLen == 2
\* how many days the UTC clock may advance
MaxDays == 1
\* number of concurrently served requests (threadpool workers)
NumProcs == 2
\* largest months argument of a direct grantOrExtend call
MaxMonths == 1
\* number of orders the payment provider may be asked to create
MaxOrders == 1
\* number of _set_license calls in one run (each may push an expiry further)
MaxGrants == 2

(***************************************************************************)
(* Strings.                                                                *)
(***************************************************************************)
IsSpace(c) == c = " "

RECURSIVE LStrip(_)
LStrip(s) == IF s # <<>> /\ IsSpace(Head(s)) THEN LStrip(Tail(s)) ELSE s

RECURSIVE RStrip(_)
RStrip(s) ==
    IF s # <<>> /\ IsSpace(s[Len(s)]) THEN RStrip(SubSeq(s, 1, Len(s) - 1)) ELSE s

\* str.strip()
Strip(s) == RStrip(LStrip(s))

LowerChar(c) ==
    CASE c = "A" -> "a"
      [] c = "B" -> "b"
      [] c = "F" -> "f"
      [] OTHER -> c

\* str.lower()
Lower(s) == [i \in 1..Len(s) |-> LowerChar(s[i])]

\* needle in haystack, for two str
Contains(hay, needle) ==
    \E i \in 0..(Len(hay) - Len(needle)) :
        \A j \in 1..Len(needle) : hay[i + j] = needle[j]

\* str.split(","): the pieces between the commas, empty pieces included
RECURSIVE SplitComma(_, _)
SplitComma(s, cur) ==
    IF s = <<>> THEN <<cur>>
    ELSE IF Head(s) = "," THEN <<cur>> \o SplitComma(Tail(s), <<>>)
    ELSE SplitComma(Tail(s), Append(cur, Head(s)))

\* all strings over an alphabet, up to a length
StringsUpTo(chars, n) == UNION {[1..k -> chars] : k \in 0..n}

(***************************************************************************)
(* Python values.                                                          *)
(***************************************************************************)
PyNone == [t |-> "None"]
PyStr(s) == [t |-> "str", v |-> s]
PyInt(n) == [t |-> "int", v |-> n]
PyList(l) == [t |-> "list", v |-> l]
PyDict(f) == [t |-> "dict", v |-> f]

IsStr(x) == x.t = "str"

\* bool(x)
Truthy(x) ==
    CASE x.t = "None" -> FALSE
      [] x.t = "str" -> x.v # <<>>
      [] x.t = "int" -> x.v # 0
      [] x.t = "list" -> x.v # <<>>
      [] x.t = "dict" -> DOMAIN x.v # {}

\* the outcomes of a Python expression: a value or a raised exception
Val(x) == [exc |-> "", val |-> x]
Raise(e) == [exc |-> e]
Raised(r) == r.exc # ""

\* key in container, key a str
PyIn(key, c) ==
    CASE c.t = "dict" -> Val(key \in DOMAIN c.v)
      [] c.t = "list" ->
            Val(\E i \in 1..Len(c.v) : c.v[i].t = "str" /\ c.v[i].v = key)
      [] c.t = "str" -> Val(Contains(c.v, key))
      [] OTHER -> Raise("TypeError")

\* container[key], key a str
PyGetItem(c, key) ==
    CASE c.t = "dict" ->
            IF key \in DOMAIN c.v THEN Val(c.v[key]) ELSE Raise("KeyError")
      [] OTHER -> Raise("TypeError")

\* a dict rebuilt with the one key only (a variant that forgets the rest)
PySetItemAlone(c, key, value) ==
    CASE c.t = "dict" -> Val(PyDict([k \in {key} |-> value]))
      [] OTHER -> Raise("TypeError")

\* container[key] = value, key a str
PySetItem(c, key, value) ==
    CASE c.t = "dict" ->
            Val(PyDict([k \in DOMAIN c.v \cup {key} |->
                            IF k = key THEN value ELSE c.v[k]]))
      [] OTHER -> Raise("TypeError")

\* obj.get(key): only a dict has the method
PyGet(c, key) ==
    CASE c.t = "dict" -> Val(IF key \in DOMAIN c.v THEN c.v[key] ELSE PyNone)
      [] OTHER -> Raise("AttributeError")

(***************************************************************************)
(* Calendar dates: datetime.date as (year, month, day), its ordinal, and   *)
(* the "%Y-%m-%d" conversions used by strptime and strftime.               *)
(***************************************************************************)
Digits == <<"0", "1", "2", "3", "4", "5", "6", "7", "8", "9">>
IsDigit(c) == \E i \in 1..10 : Digits[i] = c
DigitVal(c) == (CHOOSE i \in 1..10 : Digits[i] = c) - 1

\* int() of a string of digits, a leading blank allowed as in " 7"
RECURSIVE NumVal(_)
NumVal(s) ==
    IF s = <<>> THEN 0
    ELSE IF IsSpace(s[Len(s)]) THEN 0
    ELSE 10 * NumVal(SubSeq(s, 1, Len(s) - 1)) + DigitVal(s[Len(s)])

\* n written with at least w digits, zero padded
RECURSIVE ZeroPad(_, _)
ZeroPad(n, w) ==
    IF w <= 1 /\ n < 10 THEN <<Digits[n + 1]>>
    ELSE Append(ZeroPad(n \div 10, w - 1), Digits[(n % 10) + 1])

IsLeap(year) == year % 4 = 0 /\ (year % 100 # 0 \/ year % 400 = 0)

DaysInMonthTable == <<31, 28, 31, 30, 31, 30, 31, 31, 30, 31, 30, 31>>
DaysBeforeMonthTable == <<0, 31, 59, 90, 120, 151, 181, 212, 243, 273, 304, 334>>

DaysInMonth(year, month) ==
    IF month = 2 /\ IsLeap(year) THEN 29 ELSE DaysInMonthTable[month]

DaysBeforeYear(year) ==
    LET y == year - 1 IN y * 365 + (y \div 4) - (y \div 100) + (y \div 400)

DaysBeforeMonth(year, month) ==
    DaysBeforeMonthTable[month] + (IF month > 2 /\ IsLeap(year) THEN 1 ELSE 0)

\* date(year, month, day).toordinal()
ToOrdinal(year, month, day) ==
    DaysBeforeYear(year) + DaysBeforeMonth(year, month) + day

\* date.min and date.max as ordinals
DateMinOrdinal == ToOrdinal(1, 1, 1)
DateMaxOrdinal == ToOrdinal(9999, 12, 31)

\* date.fromordinal(n), for DateMinOrdinal <= n <= DateMaxOrdinal
FromOrdinal(ord) ==
    LET n0 == ord - 1
        n400 == n0 \div 146097
        r400 == n0 % 146097
        n100 == r400 \div 36524
        r100 == r400 % 36524
        n4 == r100 \div 1461
        r4 == r100 % 1461
        n1 == r4 \div 365
        n == r4 % 365
        year == n400 * 400 + 1 + n100 * 100 + n4 * 4 + n1
        leapyear == n1 = 3 /\ (n4 # 24 \/ n100 = 3)
        month0 == (n + 50) \div 32
        preceding0 ==
            DaysBeforeMonthTable[month0] + (IF month0 > 2 /\ leapyear THEN 1 ELSE 0)
        month == IF preceding0 > n THEN month0 - 1 ELSE month0
        preceding ==
            IF preceding0 > n
            THEN preceding0 - (DaysInMonthTable[month]
                                 + (IF month = 2 /\ leapyear THEN 1 ELSE 0))
            ELSE preceding0
    IN  IF n1 = 4 \/ n100 = 4
        THEN [y |-> year - 1, m |-> 12, d |-> 31]
        ELSE [y |-> year, m |-> month, d |-> n - preceding + 1]

\* the date written as by "%Y-%-m-%-d", without padding (a variant)
StrftimeUnpadded(ord) ==
    LET dt == FromOrdinal(ord)
    IN  ZeroPad(dt.y, 4) \o <<"-">> \o ZeroPad(dt.m, 1) \o <<"-">> \o ZeroPad(dt.d, 1)

\* date.strftime("%Y-%m-%d")
Strftime(ord) ==
    LET dt == FromOrdinal(ord)
    IN  ZeroPad(dt.y, 4) \o <<"-">> \o ZeroPad(dt.m, 2) \o <<"-">> \o ZeroPad(dt.d, 2)

\* the month field of strptime: 1[0-2]|0[1-9]|[1-9]
MonthField(s) ==
    \/ Len(s) = 2 /\ s[1] = "1" /\ s[2] \in {"0", "1", "2"}
    \/ Len(s) = 2 /\ s[1] = "0" /\ IsDigit(s[2]) /\ s[2] # "0"
    \/ Len(s) = 1 /\ IsDigit(s[1]) /\ s[1] # "0"

\* the day field of strptime: 3[01]|[12]\d|0[1-9]|[1-9]| [1-9]
DayField(s) ==
    \/ Len(s) = 2 /\ s[1] = "3" /\ s[2] \in {"0", "1"}
    \/ Len(s) = 2 /\ s[1] \in {"1", "2"} /\ IsDigit(s[2])
    \/ Len(s) = 2 /\ s[1] \in {"0", " "} /\ IsDigit(s[2]) /\ s[2] # "0"
    \/ Len(s) = 1 /\ IsDigit(s[1]) /\ s[1] # "0"

\* the ways the whole string matches \d\d\d\d-<month>-<day>
StrptimeMatches(s) ==
    {f \in [ml : 1..2, dl : 1..2] :
        /\ Len(s) = 6 + f.ml + f.dl
        /\ \A i \in 1..4 : IsDigit(s[i])
        /\ s[5] = "-"
        /\ s[6 + f.ml] = "-"
        /\ MonthField(SubSeq(s, 6, 5 + f.ml))
        /\ DayField(SubSeq(s, 7 + f.ml, Len(s)))}

\* datetime.strptime(s, "%Y-%m-%d").date() of a str s: the ordinal, or
\* ValueError when the string does not match or names no calendar day
Strptime(s) ==
    IF StrptimeMatches(s) = {} THEN Raise("ValueError")
    ELSE LET f == CHOOSE g \in StrptimeMatches(s) : TRUE
             year == NumVal(SubSeq(s, 1, 4))
             month == NumVal(SubSeq(s, 6, 5 + f.ml))
             day == NumVal(SubSeq(s, 7 + f.ml, Len(s)))
         IN  IF year < 1 \/ day > DaysInMonth(year, month)
             THEN Raise("ValueError")
             ELSE Val(ToOrdinal(year, month, day))

\* date + timedelta(days): OverflowError outside date.min .. date.max
DatePlusDays(ord, days) ==
    IF ord + days < DateMinOrdinal \/ ord + days > DateMaxOrdinal
    THEN Raise("OverflowError")
    ELSE Val(ord + days)

(***************************************************************************)
(* The completion fallback chain (app/llm_client.py).                      *)
(***************************************************************************)
VARIABLES
    ipc,        \* where improve_text is: "idle", "loop", "returned", "raised"
    text,       \* the text argument of the call
    idx,        \* position in FREE_MODELS of the next model to try
    calls,      \* the models passed to _try_model so far in this call, in order
    replies,    \* what the backend answered to each of those calls
    result      \* the value improve_text returned

ivars == <<ipc, text, idx, calls, replies, result>>

\* the Backend List: MaxModels model identifiers in a fixed order
FREE_MODELS == [i \in 1..MaxModels |-> i]

TextChars == {" ", "a"}
Texts == StringsUpTo(TextChars, MaxTextLen)

\* What client.chat.completions.create can do: answer with a message whose
\* content is a str or None, answer with no choices at all, or raise one
\* of the client library's errors.
Replies ==
    {[kind |-> "content", content |-> PyStr(s)] : s \in Texts}
        \cup {[kind |-> "content", content |-> PyNone]}
        \cup {[kind |-> k] : k \in {"RateLimitError", "APIError", "NotFoundError",
                                    "no_choices"}}

\* _try_model with the whitespace of the reply kept (a variant without strip)
_try_model_unstripped(model, txt, reply) ==
    CASE reply.kind = "content" ->
            LET out == IF Truthy(reply.content) THEN reply.content.v ELSE <<>>
            IN  Val(IF out # <<>> THEN PyStr(out) ELSE PyNone)
      [] reply.kind = "no_choices" -> Raise("IndexError")
      [] OTHER -> Val(PyNone)

\* _try_model: one request to one backend.  The three caught error classes
\* give None; response.choices[0] on an answer without choices raises
\* IndexError, which the except clause does not name.
_try_model(model, txt, reply) ==
    CASE reply.kind = "content" ->
            LET out == Strip(IF Truthy(reply.content) THEN reply.content.v ELSE <<>>)
            IN  Val(IF out # <<>> THEN PyStr(out) ELSE PyNone)
      [] reply.kind = "no_choices" -> Raise("IndexError")
      [] OTHER -> Val(PyNone)

\* the fallback with the text trimmed (a variant)
FallbackStripped(txt) == PyStr(Strip(txt))

\* what improve_text returns when the loop ends without a result
Fallback(txt) == PyStr(txt)

ImproveInit ==
    /\ ipc = "idle"
    /\ text = <<>>
    /\ idx = 1
    /\ calls = <<>>
    /\ replies = <<>>
    /\ result = PyNone

\* improve_text is called
ImproveCall(txt) ==
    /\ ipc = "idle"
    /\ ipc' = "loop"
    /\ text' = txt
    /\ idx' = 1
    /\ calls' = <<>>
    /\ replies' = <<>>
    /\ result' = PyNone

\* one iteration of "for model in FREE_MODELS"
ImproveTry(reply) ==
    /\ ipc = "loop"
    /\ idx <= Len(FREE_MODELS)
    /\ LET model == FREE_MODELS[idx]
           out == _try_model(model, text, reply)
       IN  /\ calls' = Append(calls, model)
           /\ replies' = Append(replies, reply)
           /\ IF Raised(out)
              THEN ipc' = "raised" /\ UNCHANGED <<idx, result>>
              ELSE IF Truthy(out.val)
              THEN ipc' = "returned" /\ result' = out.val /\ UNCHANGED idx
              ELSE idx' = idx + 1 /\ UNCHANGED <<ipc, result>>
    /\ UNCHANGED text

\* the loop is exhausted: the original text is returned
ImproveFallback ==
    /\ ipc = "loop"
    /\ idx > Len(FREE_MODELS)
    /\ ipc' = "returned"
    /\ result' = Fallback(text)
    /\ UNCHANGED <<text, idx, calls, replies>>

\* the caller has its answer (or its exception); the next call may start
ImproveDone ==
    /\ ipc \in {"returned", "raised"}
    /\ ipc' = "idle"
    /\ text' = <<>>
    /\ idx' = 1
    /\ calls' = <<>>
    /\ replies' = <<>>
    /\ result' = PyNone

(***************************************************************************)
(* The license ledger (app/main.py): configuration and pure helpers.       *)
(***************************************************************************)
VARIABLES
    razor_client,   \* TRUE when both payment keys are set, FALSE for None
    file,           \* licenses.json: missing, unparseable, or the JSON it holds
    today,          \* datetime.utcnow().date(), as an ordinal
    orders,         \* the calls of razor_client.order.create made so far
    grants,         \* how many times _set_license has been called
    pc,             \* per request worker: "idle", "save_open", "save_write"
    email,          \* per worker: the normalized email of its _set_license call
    expiry_str,     \* per worker: the expiry string _set_license will return
    loaded,         \* per worker: licenses as _load_licenses returned it
    call_now,       \* per worker: now of _set_license (line 76), 0 when not set
    licenses,       \* per worker: licenses with the new record, about to be dumped
    resp            \* the answer most recently sent to a client; NoResp once a
                    \* later request has gone on to write the ledger

lvars == <<razor_client, file, today, orders, grants, pc, email, expiry_str, loaded,
           call_now, licenses, resp>>
vars == <<ipc, text, idx, calls, replies, result,
          razor_client, file, today, orders, grants, pc, email, expiry_str, loaded,
          call_now, licenses, resp>>

Procs == 1..NumProcs

\* the value of the FREE_LICENSE_EMAILS environment variable
FREE_LICENSE_EMAILS_ENV == <<" ", "F", ",", " ", ",">>

\* email.strip() only (a variant that forgets lower())
NormalizeNoLower(addr) == Strip(addr)

\* email.strip().lower()
Normalize(addr) == Lower(Strip(addr))

\* the set comprehension over FREE_LICENSE_EMAILS_ENV.split(",")
FREE_LICENSE_EMAILS ==
    LET parts == SplitComma(FREE_LICENSE_EMAILS_ENV, <<>>)
    IN  {Lower(Strip(parts[i])) : i \in {j \in 1..Len(parts) : Strip(parts[j]) # <<>>}}

\* the email tested against the free set as the client sent it (a variant)
IsFreeTierRaw(addr) == addr \in FREE_LICENSE_EMAILS

\* email.strip().lower() in FREE_LICENSE_EMAILS
IsFreeTier(addr) == Normalize(addr) \in FREE_LICENSE_EMAILS

ExpiryKey == <<"e", "x", "p", "i", "r", "y">>
FarFuture == <<"2", "0", "9", "9", "-", "1", "2", "-", "3", "1">>

EmptyMap == [k \in {} |-> PyNone]

\* the record written under the key "expires" (a variant)
RecordExpires(str) == PyDict([k \in {<<"e", "x", "p", "i", "r", "e", "s">>} |-> PyStr(str)])

\* {"expiry": expiry_str}
Record(str) == PyDict([k \in {ExpiryKey} |-> PyStr(str)])

FileMissing == [t |-> "missing"]
FileCorrupt == [t |-> "corrupt"]
FileJson(doc) == [t |-> "json", v |-> doc]

\* a load that finds no ledger whatever the file holds (a variant)
LoadNothing(f) == PyDict(EmptyMap)

\* _load_licenses: {} when the file is missing or json.load raises,
\* otherwise whatever JSON value the file holds
_load_licenses(f) ==
    IF f.t = "missing" THEN PyDict(EmptyMap)
    ELSE IF f.t = "corrupt" THEN PyDict(EmptyMap)
    ELSE f.v

\* datetime.strptime(x, "%Y-%m-%d").date(): TypeError unless x is a str
PyStrptime(x) == IF IsStr(x) THEN Strptime(x.v) ELSE Raise("TypeError")

\* "now > expiry_date" written as "now >= expiry_date" (a variant)
ExpiredInclusive(now, expiry_date) == now >= expiry_date

\* datetime.utcnow().date() > expiry_date
Expired(now, expiry_date) == now > expiry_date

\* _check_license after the free-email test: the lookup in the ledger
CheckStored(em, f, now) ==
    LET ledger == _load_licenses(f)
        found == PyIn(em, ledger)
    IN  IF Raised(found) THEN found
        ELSE IF ~found.val THEN Val([active |-> FALSE, expiry |-> PyNone])
        ELSE LET rec == PyGetItem(ledger, em)
             IN  IF Raised(rec) THEN rec
                 ELSE LET got == PyGet(rec.val, ExpiryKey)
                      IN  IF Raised(got) THEN got
                          ELSE IF ~Truthy(got.val)
                          THEN Val([active |-> FALSE, expiry |-> PyNone])
                          ELSE LET expiry_date == PyStrptime(got.val)
                               IN  IF expiry_date.exc = "ValueError"
                                   THEN Val([active |-> FALSE, expiry |-> got.val])
                                   ELSE IF Raised(expiry_date) THEN expiry_date
                                   ELSE IF Expired(now, expiry_date.val)
                                   THEN Val([active |-> FALSE, expiry |-> got.val])
                                   ELSE Val([active |-> TRUE, expiry |-> got.val])

\* _check_license with the ledger consulted first and the free-email set
\* only as a fallback (a variant)
CheckLedgerFirst(addr, f, now) ==
    LET em == Normalize(addr)
        stored == CheckStored(em, f, now)
    IN  IF Raised(stored) THEN stored
        ELSE IF stored.val.expiry.t = "None" /\ IsFreeTier(addr)
        THEN Val([active |-> TRUE, expiry |-> PyStr(FarFuture)])
        ELSE stored

\* _check_license(email) -> (active, expiry), or the exception it raises
_check_license(addr, f, now) ==
    LET em == Normalize(addr)
    IN  IF IsFreeTier(addr)
        THEN Val([active |-> TRUE, expiry |-> PyStr(FarFuture)])
        ELSE CheckStored(em, f, now)

\* base_date left at now whatever the ledger holds (a variant)
BaseDateNow(em, ledger, now) ==
    LET found == PyIn(em, ledger)
    IN  IF Raised(found) THEN found ELSE Val(now)

\* base_date of _set_license for a non-free email: now, unless the ledger
\* holds a parseable expiry later than now
BaseDate(em, ledger, now) ==
    LET found == PyIn(em, ledger)
    IN  IF Raised(found) THEN found
        ELSE IF ~found.val THEN Val(now)
        ELSE LET rec == PyGetItem(ledger, em)
             IN  IF Raised(rec) THEN rec
                 ELSE LET has == PyIn(ExpiryKey, rec.val)
                      IN  IF Raised(has) THEN has
                          ELSE IF ~has.val THEN Val(now)
                          ELSE LET old == PyGetItem(rec.val, ExpiryKey)
                               IN  IF Raised(old) THEN old
                                   ELSE LET old_date == PyStrptime(old.val)
                                        IN  IF old_date.exc = "ValueError" THEN Val(now)
                                            ELSE IF Raised(old_date) THEN old_date
                                            ELSE IF old_date.val > now THEN old_date
                                            ELSE Val(now)

\* _set_license up to the call of _save_licenses: the normalized email, the
\* expiry string and the dict to be dumped, or the exception raised
_set_license(addr, months, f, now) ==
    LET em == Normalize(addr)
        ledger == _load_licenses(f)
    IN  IF IsFreeTier(addr)
        THEN LET updated == PySetItem(ledger, em, Record(FarFuture))
             IN  IF Raised(updated) THEN updated
                 ELSE Val([email |-> em, expiry_str |-> FarFuture,
                           licenses |-> updated.val])
        ELSE LET base_date == BaseDate(em, ledger, now)
             IN  IF Raised(base_date) THEN base_date
                 ELSE LET new_expiry == DatePlusDays(base_date.val, 30 * months)
                      IN  IF Raised(new_expiry) THEN new_expiry
                          ELSE LET str == Strftime(new_expiry.val)
                                   updated == PySetItem(ledger, em, Record(str))
                               IN  IF Raised(updated) THEN updated
                                   ELSE Val([email |-> em, expiry_str |-> str,
                                             licenses |-> updated.val])

(***************************************************************************)
(* The license ledger: initial states.                                     *)
(***************************************************************************)
\* the UTC date at start-up; thirty days on lies across the leap day
Day0 == ToOrdinal(2024, 2, 27)

\* the email strings clients send: a, b (paying) and f (free), in either
\* case, with and without surrounding blanks
EmailInputs ==
    {<<"a">>, <<" ", "A">>, <<"b">>, <<"B", " ">>, <<"f">>, <<" ", "F", " ">>}

\* values found under "expiry" in a ledger written by hand or by an older
\* version: not a str, not a date, a date not zero padded, and dates
\* around today, far in the future and at date.max
InitExpiries ==
    {PyNone, PyInt(0), PyInt(20240301), PyStr(<<>>), PyStr(<<"x">>),
     PyStr(<<"2", "0", "2", "4", "-", "0", "2", "-", "3", "0">>),
     PyStr(<<"2", "0", "2", "4", "-", "3", "-", "1">>),
     PyStr(FarFuture),
     PyStr(Strftime(DateMaxOrdinal))}
        \cup {PyStr(Strftime(Day0 + k)) : k \in {-1, 0, 1, 10}}

\* values found under an email: not a mapping, a mapping without expiry,
\* a mapping with one of the expiries above
InitRecords ==
    {PyNone, PyInt(5), PyStr(<<"x">>), PyStr(ExpiryKey), PyList(<<>>), PyDict(EmptyMap)}
        \cup {PyDict([k \in {ExpiryKey} |-> e]) : e \in InitExpiries}

\* what a free email may have under its name: something that is not a
\* mapping, an expiry that is no date, an expiry in the past
InitFreeRecords ==
    {PyInt(5), PyDict([k \in {ExpiryKey} |-> PyStr(<<"x">>)]), Record(Strftime(Day0 - 1))}

\* documents licenses.json may hold at start-up: not a mapping, an empty
\* mapping, one record of the paying email a, one record of the free email f
InitDocs ==
    {PyNone, PyInt(7), PyStr(<<"a">>), PyList(<<>>), PyList(<<PyStr(<<"a">>)>>),
     PyDict(EmptyMap)}
        \cup {PyDict([k \in {<<"a">>} |-> rec]) : rec \in InitRecords}
        \cup {PyDict([k \in {<<"f">>} |-> rec]) : rec \in InitFreeRecords}

InitFiles == {FileMissing, FileCorrupt} \cup {FileJson(doc) : doc \in InitDocs}

NoResp == [status |-> 0]

(***************************************************************************)
(* The license ledger: requests.  A request that calls _set_license runs   *)
(* in three steps, one for each access to licenses.json: the read in       *)
(* _load_licenses, the truncating open(LICENSE_FILE, "w") and the write    *)
(* of json.dump when the file is closed.  Requests of other workers may    *)
(* run between the steps.                                                  *)
(***************************************************************************)
\* what FastAPI answers when the handler raises anything but HTTPException
ServerError == [status |-> 500, detail |-> "Internal Server Error"]
HTTPException(code, msg) == [status |-> code, detail |-> msg]

Answer(p, r) ==
    /\ resp' = r
    /\ UNCHANGED <<pc, email, expiry_str, loaded, call_now, licenses>>

\* _set_license(addr, months) called by worker p: lines 65-72 and 76-90
CallSetLicense(p, addr, months) ==
    LET r == _set_license(addr, months, file, today)
    IN  /\ grants < MaxGrants
        /\ grants' = grants + 1
        /\ email' = [email EXCEPT ![p] = Normalize(addr)]
        /\ IF Raised(r)
           THEN /\ resp' = ServerError
                /\ expiry_str' = [expiry_str EXCEPT ![p] = <<>>]
                /\ UNCHANGED <<pc, loaded, call_now, licenses>>
           ELSE /\ pc' = [pc EXCEPT ![p] = "save_open"]
                /\ expiry_str' = [expiry_str EXCEPT ![p] = r.val.expiry_str]
                /\ loaded' = [loaded EXCEPT ![p] = _load_licenses(file)]
                /\ call_now' = [call_now EXCEPT ![p] = IF IsFreeTier(addr) THEN 0 ELSE today]
                /\ licenses' = [licenses EXCEPT ![p] = r.val.licenses]
                /\ resp' = NoResp

\* GET /api/license_status
license_status(p, addr) ==
    /\ pc[p] = "idle"
    /\ LET r == _check_license(addr, file, today)
       IN  Answer(p, IF Raised(r) THEN ServerError
                     ELSE [status |-> 200, active |-> r.val.active,
                           expiry |-> r.val.expiry])
    /\ UNCHANGED <<razor_client, file, today, orders, grants>>

\* the argument of razor_client.order.create (lines 187-192) together with
\* what the provider did with it: id is the id of the order it returned,
\* 0 when the call raised
OrderRequest(em, id) ==
    [amount |-> 99 * 100, currency |-> "INR", payment_capture |-> 1,
     notes |-> [email |-> em], id |-> id]

\* the ids of the orders the provider created
OrderIds == {orders[i].id : i \in 1..Len(orders)} \ {0}

\* create_order without the free-email test (a variant)
create_order_unguarded(p, addr, created) ==
    /\ pc[p] = "idle"
    /\ IF ~razor_client
       THEN Answer(p, HTTPException(500, "Payment not configured")) /\ UNCHANGED orders
       ELSE /\ Len(orders) < MaxOrders
            /\ orders' = Append(orders, OrderRequest(Normalize(addr),
                                    IF created THEN Len(orders) + 1 ELSE 0))
            /\ Answer(p, IF ~created THEN ServerError
                         ELSE [status |-> 200, order_id |-> Len(orders) + 1,
                               amount |-> 99 * 100, currency |-> "INR",
                               key_id |-> "RAZORPAY_KEY_ID"])
    /\ UNCHANGED <<razor_client, file, today, grants>>

\* POST /api/create_order; created tells whether the provider's
\* order.create returned an order or raised
create_order(p, addr, created) ==
    /\ pc[p] = "idle"
    /\ IF ~razor_client
       THEN Answer(p, HTTPException(500, "Payment not configured")) /\ UNCHANGED orders
       ELSE IF IsFreeTier(addr)
       THEN /\ Answer(p, HTTPException(400, "This email does not require payment."))
            /\ UNCHANGED orders
       ELSE /\ Len(orders) < MaxOrders
            /\ orders' = Append(orders, OrderRequest(Normalize(addr),
                                    IF created THEN Len(orders) + 1 ELSE 0))
            /\ Answer(p, IF ~created THEN ServerError
                         ELSE [status |-> 200, order_id |-> Len(orders) + 1,
                               amount |-> 99 * 100, currency |-> "INR",
                               key_id |-> "RAZORPAY_KEY_ID"])
    /\ UNCHANGED <<razor_client, file, today, grants>>

\* The provider signs "order_id|payment_id" with the key secret; nobody
\* else can.  A signature is the pair it was made for; Forged is any
\* string that is no signature of the provider.
Sign(order_id, payment_id) == [o |-> order_id, p |-> payment_id]
Forged == [o |-> 0, p |-> 0]
PaymentIds == {1}

\* the (order id, payment id, signature) triples a client can send: any
\* ids, and a signature that is forged or was issued for an existing order
Triples ==
    {t \in [razorpay_order_id : 1..MaxOrders, razorpay_payment_id : PaymentIds,
            razorpay_signature : {Forged} \cup
                {Sign(o, q) : o \in OrderIds, q \in PaymentIds}] : TRUE}

\* a verification that accepts every triple (a variant)
VerifyAnything(t) == TRUE

\* a verification that accepts a genuine triple only while no grant has
\* been made, as if payments were marked consumed (a variant)
VerifyUnused(t) ==
    /\ t.razorpay_signature = Sign(t.razorpay_order_id, t.razorpay_payment_id)
    /\ grants = 0

\* razor_client.utility.verify_payment_signature: TRUE when it returns,
\* FALSE when it raises SignatureVerificationError
verify_payment_signature(t) ==
    t.razorpay_signature = Sign(t.razorpay_order_id, t.razorpay_payment_id)

\* activate_license granting twelve months to paying emails too (a variant)
activate_license_twelve(p, addr, t) ==
    /\ pc[p] = "idle"
    /\ IF ~razor_client
       THEN Answer(p, HTTPException(500, "Payment not configured")) /\ UNCHANGED grants
       ELSE IF IsFreeTier(addr)
       THEN CallSetLicense(p, Normalize(addr), 12)
       ELSE IF ~verify_payment_signature(t)
       THEN /\ Answer(p, HTTPException(400, "Invalid payment signature"))
            /\ UNCHANGED grants
       ELSE CallSetLicense(p, Normalize(addr), 12)
    /\ UNCHANGED <<razor_client, file, today, orders>>

\* POST /api/activate_license, up to the load in _set_license
activate_license(p, addr, t) ==
    /\ pc[p] = "idle"
    /\ IF ~razor_client
       THEN Answer(p, HTTPException(500, "Payment not configured")) /\ UNCHANGED grants
       ELSE IF IsFreeTier(addr)
       THEN CallSetLicense(p, Normalize(addr), 12)
       ELSE IF ~verify_payment_signature(t)
       THEN /\ Answer(p, HTTPException(400, "Invalid payment signature"))
            /\ UNCHANGED grants
       ELSE CallSetLicense(p, Normalize(addr), 1)
    /\ UNCHANGED <<razor_client, file, today, orders>>

\* grantOrExtend(email, months): _set_license called directly
grant_or_extend(p, addr, months) ==
    /\ pc[p] = "idle"
    /\ CallSetLicense(p, addr, months)
    /\ UNCHANGED <<razor_client, file, today, orders>>

\* _save_licenses, first half: open(LICENSE_FILE, "w") empties the file
save_open(p) ==
    /\ pc[p] = "save_open"
    /\ file' = FileCorrupt
    /\ pc' = [pc EXCEPT ![p] = "save_write"]
    /\ UNCHANGED <<razor_client, today, orders, grants, email, expiry_str, loaded,
                   call_now, licenses, resp>>

\* _save_licenses, second half: the dumped dict reaches the file; then
\* _set_license returns expiry_str and the request is answered
save_write(p) ==
    /\ pc[p] = "save_write"
    /\ file' = FileJson(licenses[p])
    /\ pc' = [pc EXCEPT ![p] = "idle"]
    /\ loaded' = [loaded EXCEPT ![p] = PyNone]
    /\ call_now' = [call_now EXCEPT ![p] = 0]
    /\ licenses' = [licenses EXCEPT ![p] = PyNone]
    /\ resp' = [status |-> 200, success |-> TRUE, expiry |-> PyStr(expiry_str[p])]
    /\ UNCHANGED <<razor_client, today, orders, grants, email, expiry_str>>

\* midnight UTC passes
Tick ==
    /\ today < Day0 + MaxDays
    /\ today' = today + 1
    /\ UNCHANGED <<razor_client, file, orders, grants, pc, email, expiry_str, loaded,
                   call_now, licenses, resp>>

(***************************************************************************)
(* Specifications.  The two flows share no state, so each is explored on   *)
(* its own with the other at rest.  The ledger is explored twice: with     *)
(* NumProcs workers whose requests interleave, starting from a ledger the  *)
(* program itself wrote (Spec), and with one request at a time, starting   *)
(* from any of the documents of InitFiles (LedgerSpec).                    *)
(***************************************************************************)
LicenseStart(files, configured) ==
    /\ razor_client \in configured
    /\ file \in files
    /\ today = Day0
    /\ orders = <<>>
    /\ grants = 0
    /\ pc = [p \in Procs |-> "idle"]
    /\ email = [p \in Procs |-> <<>>]
    /\ expiry_str = [p \in Procs |-> <<>>]
    /\ loaded = [p \in Procs |-> PyNone]
    /\ call_now = [p \in Procs |-> 0]
    /\ licenses = [p \in Procs |-> PyNone]
    /\ resp = NoResp

\* ledgers the program wrote itself: none yet, an empty one, or one
\* record of a
WrittenFiles ==
    {FileMissing,
     FileJson(PyDict(EmptyMap)),
     FileJson(PyDict([k \in {<<"a">>} |-> Record(Strftime(Day0 + 10))]))}

Init == LicenseStart(WrittenFiles, {TRUE}) /\ ImproveInit

Next ==
    \/ \E p \in Procs, addr \in EmailInputs :
            license_status(p, addr) /\ UNCHANGED ivars
    \/ \E p \in Procs, addr \in EmailInputs, created \in BOOLEAN :
            create_order(p, addr, created) /\ UNCHANGED ivars
    \/ \E p \in Procs, addr \in EmailInputs, t \in Triples :
            activate_license(p, addr, t) /\ UNCHANGED ivars
    \/ \E p \in Procs, addr \in EmailInputs, months \in 0..MaxMonths :
            grant_or_extend(p, addr, months) /\ UNCHANGED ivars
    \/ \E p \in Procs : save_open(p) /\ UNCHANGED ivars
    \/ \E p \in Procs : save_write(p) /\ UNCHANGED ivars
    \/ Tick /\ UNCHANGED ivars

\* the license ledger and payment gate, requests interleaving
Spec == Init /\ [][Next]_vars

LedgerInit == LicenseStart(InitFiles, BOOLEAN) /\ ImproveInit

\* the worker that serves the requests when they come one at a time
Solo == CHOOSE p \in Procs : \A q \in Procs : p <= q

LedgerNext ==
    \/ \E addr \in EmailInputs : license_status(Solo, addr) /\ UNCHANGED ivars
    \/ \E addr \in EmailInputs, created \in BOOLEAN :
            create_order(Solo, addr, created) /\ UNCHANGED ivars
    \/ \E addr \in EmailInputs, t \in Triples :
            activate_license(Solo, addr, t) /\ UNCHANGED ivars
    \/ \E addr \in EmailInputs, months \in 0..MaxMonths :
            grant_or_extend(Solo, addr, months) /\ UNCHANGED ivars
    \/ save_open(Solo) /\ UNCHANGED ivars
    \/ save_write(Solo) /\ UNCHANGED ivars
    \/ Tick /\ UNCHANGED ivars

\* the license ledger and payment gate, one request at a time
LedgerSpec == LedgerInit /\ [][LedgerNext]_vars

HttpNext ==
    \/ \E p \in Procs, addr \in EmailInputs :
            license_status(p, addr) /\ UNCHANGED ivars
    \/ \E p \in Procs, addr \in EmailInputs, created \in BOOLEAN :
            create_order(p, addr, created) /\ UNCHANGED ivars
    \/ \E p \in Procs, addr \in EmailInputs, t \in Triples :
            activate_license(p, addr, t) /\ UNCHANGED ivars
    \/ \E p \in Procs : save_open(p) /\ UNCHANGED ivars
    \/ \E p \in Procs : save_write(p) /\ UNCHANGED ivars
    \/ Tick /\ UNCHANGED ivars

\* the three license routes alone, requests interleaving: _set_license is
\* reached only through activate_license
HttpSpec == Init /\ [][HttpNext]_vars

ImproveSpecInit == LicenseStart({FileMissing}, {TRUE}) /\ ImproveInit

ImproveSpecNext ==
    \/ \E txt \in Texts : ImproveCall(txt) /\ UNCHANGED lvars
    \/ \E reply \in Replies : ImproveTry(reply) /\ UNCHANGED lvars
    \/ ImproveFallback /\ UNCHANGED lvars
    \/ ImproveDone /\ UNCHANGED lvars

\* the completion fallback chain
ImproveSpec == ImproveSpecInit /\ [][ImproveSpecNext]_vars

(***************************************************************************)
(* Properties of the completion fallback chain, checked under ImproveSpec. *)
(***************************************************************************)
\* a backend attempt yields a result: a reply whose trimmed content is not empty
Yields(reply) ==
    reply.kind = "content" /\ IsStr(reply.content) /\ Strip(reply.content.v) # <<>>

\* a backend attempt yields no result in one of the ways the specification
\* lists: rate limiting, a request failure, not-found, an empty reply
NoResult(reply) ==
    \/ reply.kind \in {"RateLimitError", "APIError", "NotFoundError"}
    \/ reply.kind = "content" /\ ~Yields(reply)

\* C1: improve tries the backends strictly in list order, each at most
\* once; it goes on only after an attempt without result, stops at the
\* first attempt that yields a non-empty trimmed string and returns that
\* trimmed string, so no backend after the first success is invoked.
C1_FirstSuccessInListOrder ==
    /\ Len(calls) = Len(replies)
    /\ Len(calls) <= Len(FREE_MODELS)
    /\ \A i \in 1..Len(calls) : calls[i] = FREE_MODELS[i]
    /\ \A i \in 1..Len(calls) :
            Yields(replies[i]) =>
                /\ i = Len(calls)
                /\ ipc = "returned"
                /\ result = PyStr(Strip(replies[i].content.v))
    /\ ipc = "returned" /\ Len(calls) < Len(FREE_MODELS) => Yields(replies[Len(calls)])

\* the first backend failed, the second answered with blanks around its
\* text, the call returned the trimmed text and the third was never asked
C1_Witness ==
    /\ ipc = "returned"
    /\ Len(calls) = 2
    /\ Len(FREE_MODELS) > 2
    /\ replies[1].kind = "RateLimitError"
    /\ Yields(replies[2])
    /\ replies[2].content.v # Strip(replies[2].content.v)
    /\ result = PyStr(Strip(replies[2].content.v))

\* C2: when every backend of the list was tried and none yielded a result,
\* improve returns exactly the text it was given, untrimmed.
C2_AllFailReturnsOriginal ==
    (Len(replies) = Len(FREE_MODELS) /\ \A i \in 1..Len(replies) : NoResult(replies[i]))
        => /\ ipc \in {"loop", "returned"}
           /\ ipc = "returned" => result = PyStr(text)

\* every backend failed in some listed way and a text with a leading
\* blank came back as it was
C2_Witness ==
    /\ ipc = "returned"
    /\ Len(replies) = Len(FREE_MODELS)
    /\ \A i \in 1..Len(replies) : NoResult(replies[i])
    /\ \E i \in 1..Len(replies) : replies[i].kind = "NotFoundError"
    /\ \E i \in 1..Len(replies) : replies[i].kind = "content"
    /\ text # Strip(text)
    /\ result = PyStr(text)

\* C8: improve never fails its caller, however a backend attempt ends.
C8_ImproveNeverRaises == ipc # "raised"

(***************************************************************************)
(* Properties of the license ledger.  What the ledger holds for an email   *)
(* is read off the file directly, without the program's own lookups.       *)
(***************************************************************************)
\* the key under which a client's email string is meant to be kept
Key(addr) == Lower(Strip(addr))

Paying(addr) == Key(addr) \notin FREE_LICENSE_EMAILS

\* the file holds a mapping with a record for em whose expiry is a string
HasExpiryString(f, em) ==
    /\ f.t = "json"
    /\ f.v.t = "dict"
    /\ em \in DOMAIN f.v.v
    /\ f.v.v[em].t = "dict"
    /\ ExpiryKey \in DOMAIN f.v.v[em].v
    /\ IsStr(f.v.v[em].v[ExpiryKey])

StoredExpiry(f, em) == f.v.v[em].v[ExpiryKey].v

\* ... and that string parses as a date
HasDate(f, em) == HasExpiryString(f, em) /\ ~Raised(Strptime(StoredExpiry(f, em)))

StoredDate(f, em) == Strptime(StoredExpiry(f, em)).val

\* a document with one record set and the others as they were
WithRecord(doc, em, str) ==
    PyDict([k \in DOMAIN doc.v \cup {em} |-> IF k = em THEN Record(str) ELSE doc.v[k]])

\* the triple does not carry the provider's signature of its two ids
BadTriple(t) ==
    t.razorpay_signature # Sign(t.razorpay_order_id, t.razorpay_payment_id)

InvalidSignature == [status |-> 400, detail |-> "Invalid payment signature"]

\* C3: activate for a paying email with a triple that fails verification
\* is answered 400 "Invalid payment signature" in that same step, starts
\* no ledger write and leaves licenses.json as it was.
C3_BadSignatureLeavesLedger ==
    [][\A p \in Procs, addr \in EmailInputs, t \in Triples :
            (razor_client /\ Paying(addr) /\ BadTriple(t) /\ activate_license(p, addr, t))
                => /\ file' = file
                   /\ pc'[p] = "idle"
                   /\ grants' = grants
                   /\ resp' = InvalidSignature]_vars

\* a forged triple was refused while the ledger held a dated record of a,
\* and nothing has written the ledger
C3_Witness ==
    /\ resp = InvalidSignature
    /\ HasDate(file, <<"a">>)
    /\ grants = 0

\* the ledger is a mapping from emails to mappings (or is absent)
MappingOfMappings(f) ==
    \/ f.t \in {"missing", "corrupt"}
    \/ /\ f.t = "json"
       /\ f.v.t = "dict"
       /\ \A k \in DOMAIN f.v.v : f.v.v[k].t = "dict"

\* C4: for a paying email grantOrExtend stores and returns base + 30*months
\* days, where base is the stored expiry when it parses and lies after
\* today, and today in every other case.  Stated for ledgers that map
\* emails to mappings.
C4_GrantStacksOntoUnexpired ==
    MappingOfMappings(file) =>
        \A addr \in EmailInputs, months \in 0..MaxMonths :
            Paying(addr) =>
                LET em == Key(addr)
                    base == IF HasDate(file, em) /\ StoredDate(file, em) > today
                            THEN StoredDate(file, em)
                            ELSE today
                    r == _set_license(addr, months, file, today)
                IN  /\ ~Raised(r)
                    /\ r.val.expiry_str = Strftime(base + 30 * months)
                    /\ r.val.licenses.v[em] = Record(Strftime(base + 30 * months))

\* C5: for a paying email whose stored expiry parses as a date,
\* checkLicense reports active exactly when that date is today or later,
\* and returns the stored string as it is.
C5_ActiveThroughExpiryDay ==
    \A addr \in EmailInputs :
        (Paying(addr) /\ HasDate(file, Key(addr))) =>
            _check_license(addr, file, today) =
                Val([active |-> StoredDate(file, Key(addr)) >= today,
                     expiry |-> PyStr(StoredExpiry(file, Key(addr)))])

\* a status request was answered "active" for a record that expires today
C5_Witness ==
    /\ "active" \in DOMAIN resp
    /\ resp.active
    /\ HasDate(file, <<"a">>)
    /\ StoredDate(file, <<"a">>) = today
    /\ today = Day0
    /\ resp.expiry = PyStr(StoredExpiry(file, <<"a">>))

\* C6: two grantOrExtend calls may both load before either saves; whoever
\* writes last leaves in the file the document it loaded plus its own
\* record, whatever was written in between.
C6_LastWriterWins ==
    [][\A q \in Procs :
            (pc[q] = "save_write" /\ pc'[q] = "idle")
                => file' = FileJson(WithRecord(loaded[q], email[q], expiry_str[q]))]_vars

\* two workers each finished one grant, for different emails, both were
\* answered, and the ledger has the record of one and none of the other
C6_Witness ==
    /\ \A p \in Procs : pc[p] = "idle"
    /\ grants = 2
    /\ "success" \in DOMAIN resp
    /\ file.t = "json"
    /\ \E p, q \in Procs :
            /\ p # q
            /\ expiry_str[p] # <<>>
            /\ expiry_str[q] # <<>>
            /\ email[p] # email[q]
            /\ email[p] \notin DOMAIN file.v.v
            /\ email[q] \in DOMAIN file.v.v

\* C7: checkLicense of a free email is always (true, "2099-12-31"),
\* whatever licenses.json holds.
C7_FreeEmailAlwaysActive ==
    \A addr \in EmailInputs :
        ~Paying(addr) =>
            _check_license(addr, file, today) =
                Val([active |-> TRUE,
                     expiry |-> PyStr(<<"2", "0", "9", "9", "-", "1", "2", "-", "3", "1">>)])

\* a status request for the free email was answered active while the
\* ledger held an expired record under that very email
C7_Witness ==
    /\ "active" \in DOMAIN resp
    /\ resp.active
    /\ resp.expiry = PyStr(FarFuture)
    /\ HasDate(file, <<"f">>)
    /\ StoredDate(file, <<"f">>) < today
    /\ grants = 0

\* C9: on any ledger content that holds no date for a paying email,
\* checkLicense returns inactive without raising and grantOrExtend counts
\* from today without raising.
C9_BadDataNeverRaises ==
    \A addr \in EmailInputs :
        (Paying(addr) /\ ~HasDate(file, Key(addr))) =>
            /\ LET c == _check_license(addr, file, today)
               IN  ~Raised(c) /\ ~c.val.active
            /\ \A months \in 0..MaxMonths :
                    LET r == _set_license(addr, months, file, today)
                    IN  ~Raised(r) /\ r.val.expiry_str = Strftime(today + 30 * months)

\* C10: two email strings that differ only in case and surrounding blanks
\* get the same checkLicense result, the same free-tier decision and the
\* same grantOrExtend outcome, which sets the one record under the
\* trimmed lowercase key.
C10_SameLicenseAnySpelling ==
    \A e1, e2 \in EmailInputs :
        Key(e1) = Key(e2) =>
            /\ _check_license(e1, file, today) = _check_license(e2, file, today)
            /\ IsFreeTier(e1) = IsFreeTier(e2)
            /\ IsFreeTier(e1) = (Key(e1) \in FREE_LICENSE_EMAILS)
            /\ \A months \in 0..MaxMonths :
                    LET r1 == _set_license(e1, months, file, today)
                        r2 == _set_license(e2, months, file, today)
                    IN  /\ r1 = r2
                        /\ ~Raised(r1) =>
                                /\ r1.val.email = Key(e1)
                                /\ DOMAIN r1.val.licenses.v =
                                        DOMAIN _load_licenses(file).v \cup {Key(e1)}

\* a grant for a has been written, and a status request spelled " A"
\* finds that record
C10_Witness ==
    /\ pc[Solo] = "idle"
    /\ email[Solo] = <<"a">>
    /\ "success" \in DOMAIN resp
    /\ HasDate(file, <<"a">>)
    /\ DOMAIN file.v.v = {<<"a">>}
    /\ _check_license(<<" ", "A">>, file, today) =
            Val([active |-> TRUE, expiry |-> resp.expiry])

(***************************************************************************)
(* Properties of the payment gate.                                         *)
(***************************************************************************)
\* the request the provider received last
LastOrder(os) == os[Len(os)]

\* what a create_order step of worker p does for addr: a refusal that asks
\* the provider for nothing, or one request of 9900 INR whose id is
\* answered; withId tells in which cases the id must be answered
OrderStep(addr, created, withId) ==
    /\ file' = file
    /\ grants' = grants
    /\ pc' = pc
    /\ IF ~razor_client
       THEN orders' = orders /\ resp' = [status |-> 500, detail |-> "Payment not configured"]
       ELSE IF ~Paying(addr)
       THEN orders' = orders /\ resp'.status = 400
       ELSE /\ Len(orders') = Len(orders) + 1
            /\ SubSeq(orders', 1, Len(orders)) = orders
            /\ LastOrder(orders').amount = 9900
            /\ LastOrder(orders').currency = "INR"
            /\ LastOrder(orders').notes.email = Key(addr)
            /\ IF withId
               THEN /\ resp'.status = 200
                    /\ resp'.order_id = LastOrder(orders').id
                    /\ resp'.order_id # 0
                    /\ resp'.amount = 9900
                    /\ resp'.currency = "INR"
               ELSE resp'.status = 500

\* C11 as stated: createOrder is refused with 500 when the provider is not
\* configured and with 400 for a free email, asking the provider for
\* nothing and leaving the ledger alone; in every other case exactly one
\* order of 9900 INR is requested and its id returned.
C11_OrderIdAlwaysReturned ==
    [][\A p \in Procs, addr \in EmailInputs, created \in BOOLEAN :
            create_order(p, addr, created) => OrderStep(addr, created, TRUE)]_vars

\* C11, amended: as above, but the id is returned when the provider
\* returns the order; when its call raises, the one request was made and
\* the client is answered a server error.
C11_OrderRequestedOnceUnlessRefused ==
    [][\A p \in Procs, addr \in EmailInputs, created \in BOOLEAN :
            create_order(p, addr, created) => OrderStep(addr, created, created)]_vars

\* an order for b was created and its id answered while the ledger,
\* which nothing has written, holds a record of a
C11_Witness ==
    /\ "order_id" \in DOMAIN resp
    /\ resp.amount = 9900
    /\ Len(orders) = 1
    /\ orders[1].id = resp.order_id
    /\ orders[1].notes.email = <<"b">>
    /\ grants = 0
    /\ HasDate(file, <<"a">>)

\* the answer of a completed activation or grant
Success(str) == [status |-> 200, success |-> TRUE, expiry |-> PyStr(str)]

\* the file parses and holds a mapping
Readable(f) == f.t = "json" /\ f.v.t = "dict"

\* the ledger _load_licenses finds is a mapping: of the file, or the empty
\* one that stands for a missing or unparseable file
MappingLedger(f) == f.t \in {"missing", "corrupt"} \/ Readable(f)

\* C12: activate for a free email starts the grant of the sentinel expiry
\* at once for every triple, forged or genuine, and the request is
\* answered success when the grant is saved.  Stated for ledgers that are
\* mappings.
C12_FreeActivateAlwaysSucceeds ==
    [][\A p \in Procs :
            /\ \A addr \in EmailInputs, t \in Triples :
                    (MappingLedger(file) /\ ~Paying(addr) /\ activate_license(p, addr, t))
                        => /\ pc'[p] = "save_open"
                           /\ email'[p] = Key(addr)
                           /\ expiry_str'[p] = <<"2", "0", "9", "9", "-", "1", "2", "-", "3", "1">>
            /\ (pc[p] = "save_write" /\ pc'[p] = "idle" /\ ~Paying(email[p]))
                    => /\ resp' = Success(expiry_str[p])
                       /\ HasExpiryString(file', email[p])
                       /\ StoredExpiry(file', email[p]) = expiry_str[p]]_vars

\* C13: on a ledger that is a mapping, grantOrExtend of a free email,
\* whatever months and whatever is stored under the email, makes the record
\* {"expiry": "2099-12-31"}, keeps the rest, and returns that string when
\* saved; when that record is there already, the ledger it saves is the
\* ledger it loaded, so a repeated grant changes nothing.
C13_FreeGrantIdempotent ==
    [][\A q \in Procs :
        /\ \A addr \in EmailInputs, months \in 0..MaxMonths :
            (MappingLedger(file) /\ ~Paying(addr) /\ grant_or_extend(q, addr, months))
                => LET em == Key(addr)
                       sentinel == <<"2", "0", "9", "9", "-", "1", "2", "-", "3", "1">>
                   IN  /\ pc'[q] = "save_open"
                       /\ expiry_str'[q] = sentinel
                       /\ licenses'[q] = WithRecord(loaded'[q], em, sentinel)
                       /\ Readable(file) => loaded'[q] = file.v
                       /\ (HasExpiryString(file, em) /\ DOMAIN file.v.v[em].v = {ExpiryKey}
                                /\ StoredExpiry(file, em) = sentinel)
                            => licenses'[q] = file.v
        /\ (pc[q] = "save_write" /\ pc'[q] = "idle" /\ ~Paying(email[q]))
                => /\ file' = FileJson(licenses[q])
                   /\ resp' = Success(expiry_str[q])]_vars

\* the free email f was granted twice; the ledger holds the sentinel for
\* f, once, and still holds what it held for a at start-up
C13_Witness ==
    /\ pc[Solo] = "idle"
    /\ grants = 2
    /\ email[Solo] = <<"f">>
    /\ resp = Success(FarFuture)
    /\ Readable(file)
    /\ DOMAIN file.v.v = {<<"a">>, <<"f">>}
    /\ file.v.v[<<"f">>] = Record(FarFuture)
    /\ file.v.v[<<"a">>] = PyInt(5)

\* C14: with one request at a time on a readable ledger, a grant works on
\* the very document the file holds, its save leaves in the file that
\* document with the record of its own email set and every other record
\* as it was, and no other operation writes the file; so no record ever
\* disappears.
C14_RecordsNeverDeleted ==
    [][/\ ((\A q \in Procs : pc[q] = "idle") /\ (\A q \in Procs : pc'[q] = "idle"))
            => file' = file
       /\ \A p \in Procs :
            /\ (pc[p] = "idle" /\ pc'[p] = "save_open" /\ Readable(file))
                    => file' = file /\ loaded'[p] = file.v
            /\ (pc[p] = "save_write" /\ pc'[p] = "idle" /\ loaded[p].t = "dict")
                    => /\ Readable(file')
                       /\ DOMAIN file'.v.v = DOMAIN loaded[p].v \cup {email[p]}
                       /\ \A k \in DOMAIN loaded[p].v \ {email[p]} :
                                file'.v.v[k] = loaded[p].v[k]]_vars

\* a grant for b has been saved and the value found under a at start-up,
\* which is not even a record, is still there
C14_Witness ==
    /\ pc[Solo] = "idle"
    /\ email[Solo] = <<"b">>
    /\ resp = Success(expiry_str[Solo])
    /\ Readable(file)
    /\ DOMAIN file.v.v = {<<"a">>, <<"b">>}
    /\ file.v.v[<<"a">>] = PyInt(5)
    /\ HasDate(file, <<"b">>)

\* str is a calendar date written YYYY-MM-DD: four, two and two digits
IsoDate(str) ==
    /\ Len(str) = 10
    /\ str[5] = "-"
    /\ str[8] = "-"
    /\ \A i \in {1, 2, 3, 4, 6, 7, 9, 10} : IsDigit(str[i])
    /\ LET y == NumVal(SubSeq(str, 1, 4))
           m == NumVal(SubSeq(str, 6, 7))
           d == NumVal(SubSeq(str, 9, 10))
       IN  /\ y >= 1
           /\ m \in 1..12
           /\ d >= 1
           /\ d <= DaysInMonth(y, m)

\* C15: from a missing or empty ledger, whatever requests ran and however
\* they interleaved, whenever licenses.json holds a document it is a
\* mapping whose every value is a record {"expiry": s} with s a calendar
\* date written YYYY-MM-DD.
C15_ExpiryAlwaysIsoDate ==
    file.t = "json" =>
        /\ file.v.t = "dict"
        /\ \A k \in DOMAIN file.v.v :
                /\ file.v.v[k].t = "dict"
                /\ DOMAIN file.v.v[k].v = {ExpiryKey}
                /\ IsStr(file.v.v[k].v[ExpiryKey])
                /\ IsoDate(file.v.v[k].v[ExpiryKey].v)

\* two grants ran, one paid and one free, and the ledger holds the record
\* of each: thirty days from start-up, across the leap day, and the
\* sentinel
C15_Witness ==
    /\ \A p \in Procs : pc[p] = "idle"
    /\ grants = 2
    /\ Readable(file)
    /\ DOMAIN file.v.v = {<<"b">>, <<"f">>}
    /\ StoredExpiry(file, <<"b">>) = <<"2", "0", "2", "4", "-", "0", "3", "-", "2", "8">>
    /\ StoredExpiry(file, <<"f">>) = FarFuture

\* worker p enters _set_license for addr with the given number of months,
\* called directly or, for one month, by a verified activation
Grants(p, addr, months) ==
    \/ grant_or_extend(p, addr, months)
    \/ months = 1 /\ \E t \in Triples : activate_license(p, addr, t)

\* the emails that pay, as keys of the ledger
PayingKeys == {Key(addr) : addr \in EmailInputs} \ FREE_LICENSE_EMAILS

\* C16: with one request at a time and a clock that only advances, the
\* date stored for a paying email never moves backwards: the file changes
\* only inside a grant, and the save of a grant leaves every paying email
\* that had a date when the grant loaded the ledger with a date not before
\* it.  A grant that gets as far as saving computes an expiry not before
\* the stored date and, for one month or more, after both the stored date
\* and today, and its save stores exactly that expiry.
C16_ExpiryNeverMovesBack ==
    [][/\ today' >= today
       /\ (\A q \in Procs : pc[q] = "idle") => file' = file
       /\ \A p \in Procs :
            /\ \A addr \in EmailInputs, months \in 0..MaxMonths :
                    (pc'[p] = "save_open" /\ pc[p] = "idle" /\ Paying(addr)
                            /\ Grants(p, addr, months))
                        => LET new == Strptime(expiry_str'[p])
                               em == Key(addr)
                           IN  /\ ~Raised(new)
                               /\ loaded'[p] = _load_licenses(file)
                               /\ HasDate(file, em) => new.val >= StoredDate(file, em)
                               /\ months >= 1 => new.val > today
                               /\ (months >= 1 /\ HasDate(file, em))
                                        => new.val > StoredDate(file, em)
            /\ (pc[p] = "save_write" /\ pc'[p] = "idle")
                    => /\ Paying(email[p])
                            => /\ HasDate(file', email[p])
                               /\ StoredExpiry(file', email[p]) = expiry_str[p]
                       /\ \A em \in PayingKeys :
                            HasDate(FileJson(loaded[p]), em)
                                => /\ HasDate(file', em)
                                   /\ StoredDate(file', em)
                                        >= StoredDate(FileJson(loaded[p]), em)]_vars

\* a was good until 2099-12-31 at start-up and a one-month grant has
\* stored a later date
C16_Witness ==
    /\ pc[Solo] = "idle"
    /\ email[Solo] = <<"a">>
    /\ grants = 1
    /\ resp = Success(expiry_str[Solo])
    /\ HasDate(file, <<"a">>)
    /\ StoredDate(file, <<"a">>) = ToOrdinal(2099, 12, 31) + 30

\* the date a grant for em counts from: the stored date when there is one
\* after today, today otherwise
BaseOf(f, em, day) ==
    IF HasDate(f, em) /\ StoredDate(f, em) > day THEN StoredDate(f, em) ELSE day

\* worker q starts the grant of a verified activation for addr
VerifiedActivation(q, addr) ==
    /\ pc[q] = "idle"
    /\ pc'[q] = "save_open"
    /\ Paying(addr)
    /\ \E t \in Triples : ~BadTriple(t) /\ activate_license(q, addr, t)

\* C17: a verified activation for a paying email computes base + 30 days
\* from the ledger it loads, and its save stores that.  After an
\* activation whose record is in the file, the next one for the same email
\* adds 30 days to it, 60 in all.  When it loads the ledger another
\* activation for the same email loaded the same day and has not yet
\* saved, it computes the very expiry the other one did, so the file ends
\* 30 days past the base whichever saves last.
C17_ConcurrentActivationsLoseMonth ==
    [][\A q \in Procs :
        /\ \A addr \in EmailInputs :
            VerifiedActivation(q, addr) =>
                LET em == Key(addr)
                    new == Strptime(expiry_str'[q])
                IN  /\ ~Raised(new)
                    /\ new.val = BaseOf(file, em, today) + 30
                    /\ \A p \in Procs :
                        /\ ( /\ \A r \in Procs : pc[r] = "idle"
                             /\ email[p] = em
                             /\ resp = Success(expiry_str[p])
                             /\ HasDate(file, em)
                             /\ StoredExpiry(file, em) = expiry_str[p]
                             /\ StoredDate(file, em) > today )
                                => new.val = Strptime(expiry_str[p]).val + 30
                        /\ ( /\ p # q
                             /\ pc[p] # "idle"
                             /\ email[p] = em
                             /\ loaded[p] = loaded'[q]
                             /\ call_now[p] = today )
                                => expiry_str'[q] = expiry_str[p]
        /\ (pc[q] = "save_write" /\ pc'[q] = "idle" /\ Paying(email[q]))
                => /\ HasDate(file', email[q])
                   /\ StoredExpiry(file', email[q]) = expiry_str[q]]_vars

\* a was good for ten more days; two verified activations for a were both
\* answered with the expiry forty days from start-up, and that is what
\* the ledger holds: run one after the other they would have stored
\* seventy
C17_Witness ==
    /\ \A p \in Procs : pc[p] = "idle" /\ email[p] = <<"a">>
    /\ grants = 2
    /\ \A p \in Procs : expiry_str[p] = Strftime(Day0 + 10 + 30)
    /\ resp = Success(Strftime(Day0 + 10 + 30))
    /\ HasDate(file, <<"a">>)
    /\ StoredDate(file, <<"a">>) = Day0 + 10 + 30

\* C18: when a grant returns expiry x, for months >= 0, a checkLicense of
\* the same email on the ledger as the grant leaves it, on the day the
\* grant took for today, returns (true, x); for a free email on any day.
C18_CheckAfterGrantIsActive ==
    [][\A q \in Procs :
            (pc[q] = "save_write" /\ pc'[q] = "idle"
                    /\ (Paying(email[q]) => call_now[q] = today))
                => /\ resp' = Success(expiry_str[q])
                   /\ _check_license(email[q], file', today) =
                            Val([active |-> TRUE, expiry |-> PyStr(expiry_str[q])])]_vars

\* a grant of zero months gave b an expiry of today, and a status request
\* for b on that day was answered active with that expiry
C18_Witness ==
    /\ pc[Solo] = "idle"
    /\ email[Solo] = <<"b">>
    /\ grants = 1
    /\ today = Day0
    /\ expiry_str[Solo] = Strftime(Day0)
    /\ StoredExpiry(file, <<"b">>) = expiry_str[Solo]
    /\ "active" \in DOMAIN resp
    /\ resp.active
    /\ resp.expiry = PyStr(expiry_str[Solo])

\* C19: a triple that carries the provider's signature is accepted by
\* activate for any paying email, whatever email its order was created
\* for and however often it was accepted before: each time the grant of
\* 30 days more than the ledger then holds starts and, once saved, is
\* answered success; nothing the request does records the payment as used.
C19_VerifiedTripleReplayable ==
    [][\A q \in Procs :
        /\ \A addr \in EmailInputs, t \in Triples :
            (pc[q] = "idle" /\ razor_client /\ Paying(addr) /\ ~BadTriple(t)
                    /\ activate_license(q, addr, t))
                => /\ pc'[q] = "save_open"
                   /\ email'[q] = Key(addr)
                   /\ orders' = orders
                   /\ Triples' = Triples
                   /\ ~Raised(Strptime(expiry_str'[q]))
                   /\ Strptime(expiry_str'[q]).val = BaseOf(file, Key(addr), today) + 30
        /\ (pc[q] = "save_write" /\ pc'[q] = "idle" /\ Paying(email[q]))
                => resp' = Success(expiry_str[q])]_vars

\* the one order there is was created for b; its triple activated a
\* twice, one request after the other, and a, good for ten more days at
\* start-up, is now good for seventy
C19_Witness ==
    /\ \A p \in Procs : pc[p] = "idle"
    /\ Len(orders) = 1
    /\ orders[1].notes.email = <<"b">>
    /\ OrderIds = {1}
    /\ grants = 2
    /\ resp = Success(Strftime(Day0 + 10 + 60))
    /\ HasDate(file, <<"a">>)
    /\ StoredDate(file, <<"a">>) = Day0 + 10 + 60
    /\ DOMAIN file.v.v = {<<"a">>}

====
